---- MODULE Spec2Model ----
(***************************************************************************)
(* Directional / Spatial Stroop game (src/p.py): the frame loop, its event *)
(* handling per state, the trial generator and the result log.             *)
(*                                                                         *)
(* Time is counted in tenths of a second.  One frame of the main loop is   *)
(* Tick (clock.tick, time.time, pygame.event.get), then one Ev* step per   *)
(* fetched event in arrival order, then Draw (the drawing section and the  *)
(* re-test of the while condition).  The list pygame.event.get() returns   *)
(* is any finite list over Events; its elements are chosen as the for loop *)
(* reaches them, so a frame handles any number of events.  An uncaught     *)
(* exception (IndexError, ZeroDivisionError) ends the run: pc = "crashed".  *)
(* The configuration (TRIALS, CONGRUENCY_PROPORTION) is held in            *)
(* totalTrials and congruency, constant throughout a run.                  *)
(***************************************************************************)
EXTENDS Integers, Sequences, FiniteSets, TLC

\* ------------------------------------------------------------ bounds
\* number of trials of a session in the model
TRIALS == 2
\* the clock stops advancing at MaxTime
MaxTime == 30
\* clock.tick(FPS) paces the loop: a frame lasts FrameTime tenths of a
\* second, or twice that when it overruns
FrameTime == 3
\* make_trials is checked alone for n up to MaxN and fractions of
\* denominator up to MaxDen
MaxN == 3
MaxDen == 4

\* ------------------------------------------------------------ config
\* durations in tenths of a second
STIMULUS_DURATION == 12
FEEDBACK_DURATION == 6
FIXATION_DURATION == 5
\* CONGRUENCY_PROPORTION = CongruencyNum / CongruencyDen
CongruencyNum == 1
CongruencyDen == 2
SCREEN_SIZE == <<1000, 650>>

None == "None"
Direction == {"LEFT", "RIGHT"}

\* ------------------------------------------------------------ buttons
Rect(x, y, w, h) == [x |-> x, y |-> y, w |-> w, h |-> h]
left_button == Rect(130, SCREEN_SIZE[2] - 120, 180, 80)
right_button == Rect(SCREEN_SIZE[1] - 310, SCREEN_SIZE[2] - 120, 180, 80)

\* pygame.Rect.collidepoint: left and top edges inside, right and bottom outside
clicked(b, mpos) ==
    /\ b.x <= mpos[1] /\ mpos[1] < b.x + b.w
    /\ b.y <= mpos[2] /\ mpos[2] < b.y + b.h

\* ------------------------------------------------------------ events
NoPos == <<0, 0>>
\* the loop variable before the first event of the run
NoEvent == [type |-> "NOEVENT", key |-> None, button |-> 0, pos |-> NoPos]
QuitEvent == [type |-> "QUIT", key |-> None, button |-> 0, pos |-> NoPos]
KeyDown(k) == [type |-> "KEYDOWN", key |-> k, button |-> 0, pos |-> NoPos]
MouseDown(b, p) == [type |-> "MOUSEBUTTONDOWN", key |-> None, button |-> b, pos |-> p]
MouseMotion(p) == [type |-> "MOUSEMOTION", key |-> None, button |-> 0, pos |-> p]

InLeft == <<200, 560>>
InRight == <<700, 560>>
Outside == <<500, 300>>

Events ==
    {QuitEvent, MouseMotion(Outside)}
      \cup {KeyDown(k) : k \in {"K_SPACE", "K_LEFT", "K_RIGHT", "K_r", "K_q", "K_a"}}
      \cup {MouseDown(1, p) : p \in {InLeft, InRight, Outside}}
      \cup {MouseDown(3, InLeft)}

\* ------------------------------------------------------------ trials
\* Python 3 round() of the fraction a/b (b > 0, a >= 0): half rounds to even
Round(a, b) ==
    LET q == a \div b
        r == a % b
    IN  IF 2 * r < b THEN q
        ELSE IF 2 * r > b THEN q + 1
        ELSE IF q % 2 = 0 THEN q ELSE q + 1

\* n_congruent = int(round(n * congruency_prop)), congruency_prop = f[1] / f[2]
NCongruent(n, f) == Round(n * f[1], f[2])

\* mutant of Opposite: the branches give back the word itself
OppositeSame(word) == IF word = "RIGHT" THEN "RIGHT" ELSE "LEFT"

Opposite(word) == IF word = "RIGHT" THEN "LEFT" ELSE "RIGHT"

\* the number of passes of: for _ in range(k)
RangeLen(k) == IF k > 0 THEN k ELSE 0

\* a trial is a (word, arrow) pair; the incongruent arrow is the other direction
Congruent(trial) == trial[1] = trial[2]

CountCongruent(ts) == Cardinality({i \in 1..Len(ts) : Congruent(ts[i])})

\* the list the two loops build from the words random.choice draws: the
\* congruent trials first, then the incongruent ones
BuildTrials(n_congruent, n_incongruent, words) ==
    [i \in 1..(RangeLen(n_congruent) + RangeLen(n_incongruent)) |->
        IF i <= n_congruent
        THEN <<words[i], words[i]>>
        ELSE <<words[i], Opposite(words[i])>>]

\* random.shuffle: every order of the list
Shuffles(list) ==
    {[i \in 1..Len(list) |-> list[p[i]]] : p \in Permutations(1..Len(list))}

\* every list make_trials(n, f) can return, over the word draws and the shuffle
make_trials(n, f) ==
    LET n_congruent == NCongruent(n, f)
        n_incongruent == n - n_congruent
        len == RangeLen(n_congruent) + RangeLen(n_incongruent)
    IN  UNION {Shuffles(BuildTrials(n_congruent, n_incongruent, words)) :
                  words \in [1..len -> Direction]}

\* ------------------------------------------------------------ state
VARIABLES
    totalTrials, congruency,
    trials, trial_index, score, results, state, state_time, stim_onset,
    current_word, current_arrow, running, t, event, pc

vars == <<totalTrials, congruency,
          trials, trial_index, score, results, state, state_time, stim_onset,
          current_word, current_arrow, running, t, event, pc>>

config == <<totalTrials, congruency>>

\* the module-level variables of the main loop
InitState ==
    /\ trials \in make_trials(totalTrials, congruency)
    /\ trial_index = 0
    /\ score = 0
    /\ results = <<>>
    /\ state = "start"
    /\ state_time = 0
    /\ stim_onset = <<>>
    /\ current_word = None
    /\ current_arrow = None
    /\ running = TRUE
    /\ t = 0
    /\ event = NoEvent
    /\ pc = "tick"

Init ==
    /\ totalTrials = TRIALS
    /\ congruency = <<CongruencyNum, CongruencyDen>>
    /\ InitState

\* ------------------------------------------------------------ frame start
\* while running: dt = clock.tick(FPS); t = time.time(); pygame.event.get()
Tick ==
    /\ pc = "tick"
    /\ running
    /\ \E dt \in {FrameTime, 2 * FrameTime} :
          /\ t + dt <= MaxTime
          /\ t' = t + dt
    /\ pc' = "events"
    /\ UNCHANGED <<trials, trial_index, score, results, state, state_time,
                   stim_onset, current_word, current_arrow, running, event, config>>

\* for event in pygame.event.get(): the loop variable takes the next event
Handling(e) == pc = "events" /\ event' = e /\ t' = t /\ UNCHANGED config

\* if event.type == pygame.QUIT: running = False
AfterQuitCheck(e) == IF e.type = "QUIT" THEN FALSE ELSE running

\* ------------------------------------------------------------ start
\* mutant of StartsSession: any mouse button starts the session
StartsSessionAnyButton(e) ==
    \/ e.type = "KEYDOWN" /\ e.key = "K_SPACE"
    \/ e.type = "MOUSEBUTTONDOWN"

StartsSession(e) ==
    \/ e.type = "KEYDOWN" /\ e.key = "K_SPACE"
    \/ e.type = "MOUSEBUTTONDOWN" /\ e.button = 1

EvStart ==
    \E e \in Events :
        /\ Handling(e)
        /\ state = "start"
        /\ running' = AfterQuitCheck(e)
        /\ IF StartsSession(e)
           THEN /\ trial_index' = 0
                /\ score' = 0
                /\ results' = <<>>
                /\ trials' \in make_trials(totalTrials, congruency)
                /\ state' = "fixation"
                /\ state_time' = t
           ELSE UNCHANGED <<trial_index, score, results, trials, state, state_time>>
        /\ pc' = "events"
        /\ UNCHANGED <<stim_onset, current_word, current_arrow>>

\* ------------------------------------------------------------ fixation
\* list[index] raises IndexError unless 0 <= index < len(list) (the index is
\* never negative here); the lists of the model count from 1
InRange(list, index) == 0 <= index /\ index < Len(list)

\* mutant of FixationOver: the duration is not waited for
FixationOverAtOnce == t - state_time >= 0

FixationOver == t - state_time >= FIXATION_DURATION

EvFixation ==
    \E e \in Events :
        /\ Handling(e)
        /\ state = "fixation"
        /\ running' = AfterQuitCheck(e)
        /\ IF FixationOver
           THEN /\ state' = "stimulus"
                /\ state_time' = t
                /\ stim_onset' = <<t>>
                /\ IF InRange(trials, trial_index)
                   THEN /\ current_word' = trials[trial_index + 1][1]
                        /\ current_arrow' = trials[trial_index + 1][2]
                        /\ pc' = "events"
                   ELSE /\ UNCHANGED <<current_word, current_arrow>>
                        /\ pc' = "crashed"
           ELSE /\ UNCHANGED <<state, state_time, stim_onset, current_word, current_arrow>>
                /\ pc' = "events"
        /\ UNCHANGED <<trials, trial_index, score, results>>

\* ------------------------------------------------------------ stimulus
\* the response an event stands for, None when it is no response
Response(e) ==
    IF e.type = "KEYDOWN" THEN
        IF e.key = "K_RIGHT" THEN "RIGHT"
        ELSE IF e.key = "K_LEFT" THEN "LEFT"
        ELSE None
    ELSE IF e.type = "MOUSEBUTTONDOWN" /\ e.button = 1 THEN
        IF clicked(left_button, e.pos) THEN "LEFT"
        ELSE IF clicked(right_button, e.pos) THEN "RIGHT"
        ELSE None
    ELSE None

\* mutant of Correct: judged by the arrow
CorrectByArrow(response, word, arrow) == response = arrow

\* correctness is judged by the word, not the arrow
Correct(response, word, arrow) == response = word

\* mutant of ResponseResult: the trial number is the 0-based index
ResponseResultZeroBased(response) ==
    [trial |-> trial_index, word |-> current_word, arrow |-> current_arrow,
     response |-> response, correct |-> Correct(response, current_word, current_arrow),
     rt |-> <<t - stim_onset[1]>>]

ResponseResult(response) ==
    [trial |-> trial_index + 1, word |-> current_word, arrow |-> current_arrow,
     response |-> response, correct |-> Correct(response, current_word, current_arrow),
     rt |-> <<t - stim_onset[1]>>]

\* mutant of TimeoutResult: a miss is logged with the full duration as rt
TimeoutResultWithRt ==
    [trial |-> trial_index + 1, word |-> current_word, arrow |-> current_arrow,
     response |-> None, correct |-> FALSE, rt |-> <<STIMULUS_DURATION>>]

TimeoutResult ==
    [trial |-> trial_index + 1, word |-> current_word, arrow |-> current_arrow,
     response |-> None, correct |-> FALSE, rt |-> <<>>]

\* mutant of ScoreAfter: every response scores
ScoreAfterAlways(s, correct) == s + 1

\* if correct: score += 1
ScoreAfter(s, correct) == IF correct THEN s + 1 ELSE s

\* mutant of RecordTimeout: a miss is not logged
RecordTimeoutDropped(rs) == rs

\* record miss as wrong with rt = None
RecordTimeout(rs) == Append(rs, TimeoutResult)

StimulusOver == t - stim_onset[1] >= STIMULUS_DURATION

\* mutant of TimesOut: the timeout test ignores the state the response test left
TimesOutUnguarded(state_now) == StimulusOver

\* the timeout test follows the response test for the same event, and
\* reads the state the response test left
TimesOut(state_now) == StimulusOver /\ state_now = "stimulus"

EvStimulus ==
    \E e \in Events :
        /\ Handling(e)
        /\ state = "stimulus"
        /\ running' = AfterQuitCheck(e)
        /\ LET response == Response(e)
               responded == response # None
               score1 == IF responded
                         THEN ScoreAfter(score, ResponseResult(response).correct)
                         ELSE score
               results1 == IF responded
                           THEN Append(results, ResponseResult(response))
                           ELSE results
               state1 == IF responded THEN "feedback" ELSE state
               timeout == TimesOut(state1)
           IN  /\ score' = score1
               /\ results' = IF timeout THEN RecordTimeout(results1) ELSE results1
               /\ state' = IF timeout THEN "feedback" ELSE state1
               /\ state_time' = IF responded \/ timeout THEN t ELSE state_time
        /\ pc' = "events"
        /\ UNCHANGED <<trials, trial_index, stim_onset, current_word, current_arrow>>

\* ------------------------------------------------------------ feedback
FeedbackOver == t - state_time >= FEEDBACK_DURATION

\* mutant of NextIndex: a trial is skipped
NextIndexSkip(index) == index + 2

\* trial_index += 1
NextIndex(index) == index + 1

\* mutant of SessionOver: the session runs one trial too long
SessionOverLate(index) == index > totalTrials

\* mutant of SessionOver: the session ends one trial early
SessionOverEarly(index) == index >= totalTrials - 1

SessionOver(index) == index >= totalTrials

EvFeedback ==
    \E e \in Events :
        /\ Handling(e)
        /\ state = "feedback"
        /\ running' = AfterQuitCheck(e)
        /\ IF FeedbackOver
           THEN /\ trial_index' = NextIndex(trial_index)
                /\ state' = IF SessionOver(trial_index') THEN "finished" ELSE "fixation"
                /\ state_time' = t
           ELSE UNCHANGED <<trial_index, state, state_time>>
        /\ pc' = "events"
        /\ UNCHANGED <<trials, score, results, stim_onset, current_word, current_arrow>>

\* ------------------------------------------------------------ finished
Restarts(e) == e.type = "KEYDOWN" /\ e.key = "K_r"
Quits(e) == e.type = "KEYDOWN" /\ e.key = "K_q"

EvFinished ==
    \E e \in Events :
        /\ Handling(e)
        /\ state = "finished"
        /\ state' = IF Restarts(e) THEN "start" ELSE state
        /\ running' = IF Quits(e) THEN FALSE ELSE AfterQuitCheck(e)
        /\ pc' = "events"
        /\ UNCHANGED <<trials, trial_index, score, results, state_time, stim_onset,
                       current_word, current_arrow>>

\* ------------------------------------------------------------ frame end
\* sum(correct_rts); each correct result carries an rt
RECURSIVE SumRt(_)
SumRt(rs) ==
    IF rs = <<>> THEN 0
    ELSE (IF Head(rs).correct THEN Head(rs).rt[1] ELSE 0) + SumRt(Tail(rs))

CorrectCount(rs) == Cardinality({i \in 1..Len(rs) : rs[i].correct})

\* calc_avg_rt(): the mean as the fraction <<numerator, denominator>>, 0.0 as
\* <<0, 1>> when there is no result or no correct one
calc_avg_rt ==
    IF results = <<>> THEN <<0, 1>>
    ELSE IF CorrectCount(results) = 0 THEN <<0, 1>>
    ELSE <<SumRt(results), CorrectCount(results)>>

\* the average-RT line of the finished screen: numeric if avg > 0 else N/A
AvgLine ==
    LET avg == calc_avg_rt
    IN  IF avg[1] > 0
        THEN [form |-> "numeric", value |-> avg]
        ELSE [form |-> "N/A", value |-> <<0, 1>>]

\* draw_hud divides idx by total: ZeroDivisionError when TRIALS is 0
HudDraws == totalTrials # 0

\* the drawing section runs without raising: fixation draws the HUD; stimulus
\* reads trials[trial_index] and then draws the HUD; feedback draws the HUD
\* and then reads results[-1]; start and finished read neither
DrawSucceeds ==
    CASE state = "fixation" -> HudDraws
      [] state = "stimulus" -> InRange(trials, trial_index) /\ HudDraws
      [] state = "feedback" -> HudDraws /\ results # <<>>
      [] OTHER -> TRUE

\* the for loop is exhausted; the drawing section (in stimulus it reloads the
\* current trial); then the while condition is tested again
Draw ==
    /\ pc = "events"
    /\ IF state = "stimulus" /\ InRange(trials, trial_index)
       THEN /\ current_word' = trials[trial_index + 1][1]
            /\ current_arrow' = trials[trial_index + 1][2]
       ELSE UNCHANGED <<current_word, current_arrow>>
    /\ pc' = IF ~DrawSucceeds THEN "crashed" ELSE IF running THEN "tick" ELSE "done"
    /\ UNCHANGED <<trials, trial_index, score, results, state, state_time,
                   stim_onset, running, t, event, config>>

Next ==
    \/ Tick
    \/ EvStart
    \/ EvFixation
    \/ EvStimulus
    \/ EvFeedback
    \/ EvFinished
    \/ Draw

Spec == Init /\ [][Next]_vars

\* the same program started under a configuration with no trials
InitConfig ==
    /\ totalTrials \in {-1, 0, TRIALS}
    /\ congruency = <<CongruencyNum, CongruencyDen>>
    /\ InitState

SpecConfig == InitConfig /\ [][Next]_vars

\* ------------------------------------------------------------ make_trials alone
\* make_trials applied to every n in 0..MaxN and every fraction a/b in [0, 1]
\* with b <= MaxDen
Fractions == {f \in (0..MaxDen) \X (1..MaxDen) : f[1] <= f[2]}

InitTrials ==
    /\ totalTrials \in 0..MaxN
    /\ congruency \in Fractions
    /\ trials = <<>>
    /\ trial_index = 0
    /\ score = 0
    /\ results = <<>>
    /\ state = "start"
    /\ state_time = 0
    /\ stim_onset = <<>>
    /\ current_word = None
    /\ current_arrow = None
    /\ running = TRUE
    /\ t = 0
    /\ event = NoEvent
    /\ pc = "make_trials"

MakeTrials ==
    /\ pc = "make_trials"
    /\ trials' \in make_trials(totalTrials, congruency)
    /\ pc' = "made"
    /\ UNCHANGED <<trial_index, score, results, state, state_time, stim_onset,
                   current_word, current_arrow, running, t, event, config>>

SpecTrials == InitTrials /\ [][MakeTrials]_vars


\* ------------------------------------------------------------ helpers
Last(rs) == rs[Len(rs)]
FrameDone == pc \in {"tick", "done"}
\* an Ev* step: the for loop takes one event and stays in the loop
EventStep == pc = "events" /\ pc' = "events"
\* the feedback phase was entered in the frame now running
EnteredFeedbackThisFrame == state = "feedback" /\ state_time = t /\ results # <<>>

\* ------------------------------------------------------------ claims

\* C1: when no directional response is delivered before the stimulus deadline,
\* the trial gets its timeout result (response None, correct FALSE, rt None)
\* and the machine leaves Stimulus for Feedback: after a frame that ran at or
\* past the deadline the phase is no longer Stimulus, and no recorded response
\* was taken at or past the deadline.
C1_TimeoutRecorded ==
    /\ (FrameDone /\ state = "stimulus") => ~StimulusOver
    /\ \A i \in 1..Len(results) :
          results[i].response # None => results[i].rt[1] < STIMULUS_DURATION

\* C2: time-based transitions are driven by frames: a frame in which the
\* elapsed-time condition of the active phase holds fires the transition, so
\* no completed frame leaves a phase whose time is up.
C2_FrameDrivenTransitions ==
    FrameDone =>
        /\ state = "fixation" => ~FixationOver
        /\ state = "stimulus" => ~StimulusOver
        /\ state = "feedback" => ~FeedbackOver

\* C3: tie-break: a frame that records a timeout holds no directional response
\* among its events (a directional response in the frame's queue would have
\* been recorded instead of the timeout, whatever precedes it).
C3_ResponseBeatsTimeout ==
    (pc = "events" /\ EnteredFeedbackThisFrame /\ Last(results).response = None)
        => Response(event) = None


\* C4: exactly one result per trial: the i-th entry of results has trial
\* number i (so no two entries share one), results only ever grows by one
\* entry appended while in Stimulus or is emptied by a session start, and
\* while the phase is Feedback no step changes results or score.
C4_OneResultPerTrial ==
    /\ [](\A i \in 1..Len(results) : results[i].trial = i)
    /\ [][/\ \/ results' = results
             \/ /\ state = "stimulus"
                /\ Len(results') = Len(results) + 1
                /\ SubSeq(results', 1, Len(results)) = results
             \/ state = "start" /\ results' = <<>>
          /\ state = "feedback" => (results' = results /\ score' = score)]_vars

\* Feedback was entered for trial 2 on a response, and the other directional
\* event was handled after it in the same frame
C4_Witness ==
    /\ pc = "events"
    /\ EnteredFeedbackThisFrame
    /\ Len(results) = 2
    /\ Last(results).response # None
    /\ Response(event) \notin {None, Last(results).response}

\* C5 as stated: len(results) == trial_index in every state outside Start.
C5_LenEqualsIndex == state # "start" => Len(results) = trial_index

\* C5 amended: len(results) == trial_index in Fixation, Stimulus and
\* Finished; in Feedback the result of the trial just ended is already
\* logged and trial_index not yet advanced: len(results) == trial_index + 1.
C5_LenTracksIndex ==
    /\ state \in {"fixation", "stimulus", "finished"} => Len(results) = trial_index
    /\ state = "feedback" => Len(results) = trial_index + 1

C5_Witness == state = "feedback" /\ trial_index = 1 /\ Len(results) = 2

\* C6: trial_index changes only by +1 on a Feedback -> (Fixation | Finished)
\* transition and by being set to 0 on a session start from Start; every
\* such transition does so.
C6_IndexSteps ==
    [][/\ trial_index' # trial_index =>
             \/ /\ state = "feedback"
                /\ state' \in {"fixation", "finished"}
                /\ trial_index' = trial_index + 1
             \/ state = "start" /\ state' = "fixation" /\ trial_index' = 0
       /\ (state = "feedback" /\ state' # "feedback") =>
             (state' \in {"fixation", "finished"} /\ trial_index' = trial_index + 1)
       /\ (state = "start" /\ state' # "start") =>
             (state' = "fixation" /\ trial_index' = 0)]_vars

\* a second session has begun after a completed one: the index is back at 0
C6_Witness ==
    state = "fixation" /\ trial_index = 0 /\ results = <<>> /\ stim_onset # <<>>

\* C7: score is the number of entries of results whose correct field is true.
C7_ScoreCountsCorrect ==
    score = Cardinality({i \in 1..Len(results) : results[i].correct})

\* back in Start after a session with one correct and one wrong answer
C7_Witness == state = "start" /\ score = 1 /\ Len(results) = 2

\* C8: every recorded result has correct == (response is not None and
\* response == word of trials[trial number - 1]), and the arrow does not
\* enter into correctness.
C8_CorrectByWord ==
    /\ \A i \in 1..Len(results) :
          /\ results[i].word = trials[results[i].trial][1]
          /\ results[i].correct =
                (results[i].response # None /\ results[i].response = results[i].word)
    /\ \A r \in Direction \cup {None}, w \in Direction :
          Correct(r, w, "LEFT") = Correct(r, w, "RIGHT")

\* an incongruent trial answered by the word, and another trial answered
\* against the word
C8_Witness ==
    /\ \E i \in 1..Len(results) :
          results[i].arrow # results[i].word /\ results[i].correct
    /\ \E i \in 1..Len(results) :
          results[i].response # None /\ ~results[i].correct

\* C9: the phase becomes Finished only from Feedback, when the TRIALS-th
\* result is logged and trial_index reaches TRIALS; a Feedback that ends
\* goes to Finished exactly then and to Fixation otherwise; Finished is left
\* only for Start, by the R key, and Q or window-close stop the loop.
C9_FinishedExactlyAfterAllTrials ==
    [][/\ (state # "finished" /\ state' = "finished") =>
             (state = "feedback" /\ Len(results) = TRIALS /\ trial_index' = TRIALS)
       /\ (state = "feedback" /\ state' # "feedback") =>
             /\ state' \in {"fixation", "finished"}
             /\ state' = "finished" <=> trial_index' = TRIALS
       /\ (state = "finished" /\ state' # "finished") =>
             (EventStep /\ state' = "start" /\ Restarts(event'))
       /\ (state = "finished" /\ EventStep /\ (Quits(event') \/ event'.type = "QUIT")) =>
             (running' = FALSE /\ state' = "finished")]_vars

\* still Finished in a frame after the one that ended the last Feedback
C9_Witness == state = "finished" /\ t > state_time /\ pc = "events" /\ event.type = "MOUSEBUTTONDOWN"

\* C10: in Stimulus an input event that is no directional response (another
\* key, a click outside both buttons, a non-primary click, mouse motion)
\* leaves phase, trial_index, score, results and state_time unchanged.
C10_OtherInputIgnored ==
    [][(EventStep /\ state = "stimulus" /\ event'.type # "QUIT"
           /\ Response(event') = None) =>
          UNCHANGED <<state, trial_index, score, results, state_time>>]_vars


\* C11: no early skip: Fixation and Feedback end only once their duration
\* has elapsed, whatever the event, and no step taken in Fixation or Feedback
\* changes score or results.
C11_NoEarlySkip ==
    [][/\ (state = "fixation" /\ state' # "fixation") =>
             t - state_time >= FIXATION_DURATION
       /\ (state = "feedback" /\ state' # "feedback") =>
             t - state_time >= FEEDBACK_DURATION
       /\ state \in {"fixation", "feedback"} =>
             (score' = score /\ results' = results)]_vars

\* a LEFT key handled in the Fixation the same frame entered, before its time
C11_Witness ==
    /\ pc = "events"
    /\ state = "fixation"
    /\ state_time = t
    /\ trial_index = 1
    /\ event = KeyDown("K_LEFT")

\* C12: cancellation is immediate: the event that clears running changes
\* none of phase, trial_index, score, results, and nothing changes them once
\* running is cleared.
C12_QuitIsImmediate ==
    [][(~running \/ ~running') =>
          UNCHANGED <<state, trial_index, score, results>>]_vars

\* C13: a configuration with totalTrials <= 0 is rejected at session start:
\* the machine never leaves Start and the run does not fail on an empty
\* trial list.
C13_MalformedConfigRejected ==
    totalTrials <= 0 => (state = "start" /\ pc # "crashed")

\* C14: session reset happens on and only on session start: Start is left
\* only for Fixation, on SPACE or a primary click, and every SPACE or
\* primary click in Start does so, with trial_index = 0, score = 0,
\* results = [] and a generated list of totalTrials trials; R in Finished
\* goes to Start and leaves them all unchanged; outside Start the trial list
\* does not change, results is not emptied and loses no entry, and score and
\* trial_index do not decrease.
C14_ResetOnlyOnStart ==
    [][/\ (state = "start" /\ EventStep /\
             (event' = KeyDown("K_SPACE")
                \/ (event'.type = "MOUSEBUTTONDOWN" /\ event'.button = 1)))
          => state' = "fixation"
       /\ (state = "start" /\ state' # "start") =>
             /\ event' = KeyDown("K_SPACE")
                  \/ (event'.type = "MOUSEBUTTONDOWN" /\ event'.button = 1)
             /\ state' = "fixation"
             /\ trial_index' = 0 /\ score' = 0 /\ results' = <<>>
             /\ Len(trials') = totalTrials
       /\ (state = "finished" /\ state' # "finished") =>
             /\ state' = "start" /\ event' = KeyDown("K_r")
             /\ UNCHANGED <<trial_index, score, results, trials>>
       /\ state # "start" =>
             /\ trials' = trials
             /\ Len(results') >= Len(results)
             /\ score' >= score
             /\ trial_index' >= trial_index]_vars

\* back in Start by R with the finished session's index, score and results
C14_Witness ==
    /\ state = "start"
    /\ event = KeyDown("K_r")
    /\ trial_index = TRIALS
    /\ Len(results) = TRIALS

\* C15: in every recorded result rt is None exactly when response is None.
C15_RtNoneIffNoResponse ==
    \A i \in 1..Len(results) :
        (results[i].rt = <<>>) <=> (results[i].response = None)

\* Feedback of a missed first trial: neither response nor rt
C15_Witness ==
    /\ state = "feedback"
    /\ Len(results) = 1
    /\ results[1].response = None
    /\ results[1].rt = <<>>

\* C16: make_trials(n, f) returns exactly n trials, round(n*f) of them with
\* arrow == word and the other n - round(n*f) with arrow != word, for every
\* word draw and every shuffle.
C16_CongruentCount ==
    pc = "made" =>
        /\ Len(trials) = totalTrials
        /\ CountCongruent(trials) = Round(totalTrials * congruency[1], congruency[2])
        /\ Cardinality({i \in 1..Len(trials) : trials[i][2] # trials[i][1]})
              = totalTrials - Round(totalTrials * congruency[1], congruency[2])
        /\ \A i \in 1..Len(trials) : trials[i] \in Direction \X Direction

\* three trials at fraction 1/2, shuffled so that an incongruent one leads
C16_Witness ==
    /\ pc = "made"
    /\ totalTrials = 3
    /\ congruency = <<1, 2>>
    /\ trials[1][1] # trials[1][2]
    /\ trials[2][1] = trials[2][2]

\* C17: on the finished screen, once drawn, the average-RT line is the not-available form
\* exactly when results holds no correct response, and the numeric mean
\* whenever a correct response exists, a mean of 0 included.
C17_NoDataVersusZero ==
    (state = "finished" /\ FrameDone) =>
        ((AvgLine.form = "N/A") <=> (\A i \in 1..Len(results) : ~results[i].correct))

\* C18: no response is recorded in the frame in which the stimulus was
\* switched on, so every recorded reaction time is strictly positive.
C18_ResponseAfterShown ==
    \A i \in 1..Len(results) :
        results[i].response # None => results[i].rt[1] > 0

\* C19: in Feedback results is non-empty, len(results) == trial_index + 1,
\* and the last result is that of trials[trial_index]: its number is
\* trial_index + 1 and its word and arrow are that trial's.
C19_FeedbackShowsLastTrial ==
    state = "feedback" =>
        /\ results # <<>>
        /\ Len(results) = trial_index + 1
        /\ Last(results).trial = trial_index + 1
        /\ Last(results).word = trials[trial_index + 1][1]
        /\ Last(results).arrow = trials[trial_index + 1][2]

\* Feedback of the second trial, an incongruent one that was answered
C19_Witness ==
    /\ state = "feedback"
    /\ trial_index = 1
    /\ Last(results).response # None
    /\ Last(results).word # Last(results).arrow

\* C20: with totalTrials >= 1 the trial list has totalTrials entries and
\* wherever trials[trial_index] is read (Fixation, for the transition to
\* Stimulus, and Stimulus, for the rendering) 0 <= trial_index < len(trials);
\* no read fails.
C20_TrialReadsInRange ==
    totalTrials >= 1 =>
        /\ Len(trials) = totalTrials
        /\ state \in {"fixation", "stimulus"} => InRange(trials, trial_index)
        /\ pc # "crashed"

\* the last trial's stimulus, rendered
C20_Witness ==
    /\ state = "stimulus"
    /\ trial_index = totalTrials - 1
    /\ pc = "tick"
    /\ current_word = trials[totalTrials][1]

====
